---- MODULE Spec2Model ----
(***************************************************************************)
(* Local sandboxed execution worker (task-maker).                          *)
(*                                                                         *)
(* The module models executor::LocalExecutor (cpp/executor/                *)
(* local_executor.cpp): the Execute pipeline of one request per worker     *)
(* thread, the process-wide admission guard LocalExecutor::ThreadGuard     *)
(* (static cur / max / mutex), the content-addressed store and the         *)
(* per-request temp workspace.  It also models the ingest of a file into   *)
(* the store by util::File::Copy, the receivers of util::File::Write and   *)
(* util::File::Move on one path (cpp/util/file.cpp), manager::EventQueue   *)
(* with one and with several consumers (manager/event_queue.cpp) and       *)
(* SharedQueue (cpp/util/ipc.hpp), each with its own variables and its     *)
(* own specifications.                                                     *)
(*                                                                         *)
(* Conventions                                                             *)
(*  - A string of the program is a sequence of tokens; the tokens "/" and  *)
(*    "NUL" are the two characters IsIllegalChar looks for, every other    *)
(*    token is a run of ordinary characters.                               *)
(*  - A file's content is identified with its SHA-256: a blob of the store *)
(*    and a file of the workspace are both named by the hash of their      *)
(*    bytes.                                                               *)
(*  - cur and max are size_t.  The code only assigns them, adds or         *)
(*    subtracts 1 and compares them for equality, so the model keeps the   *)
(*    representative nearest to zero of the value modulo 2^64: -1 stands   *)
(*    for 2^64 - 1, the value of 0 - 1.                                    *)
(*  - Times of ExecutionInfo are milliseconds; the response's seconds      *)
(*    (millis / 1000.0) are kept as the exact number of milliseconds and   *)
(*    compared with 1000 * the limit in seconds.                           *)
(***************************************************************************)
EXTENDS Integers, Sequences, FiniteSets, TLC

(***************************************************************************)
(* Bounds of the model.                                                    *)
(***************************************************************************)
\* Number of worker threads that call Execute concurrently.
NumThreads == 2
\* Largest num_cores a LocalExecutor is constructed with.
MaxCores == 2
\* Number of threads that enqueue events, and events enqueued in a run.
NumProducers == 2
MaxEvents == 4
\* Number of threads that call EventQueue::BindWriter on one queue.
NumConsumers == 2
\* Number of events enqueued in a run with several consumers, and in such
\* a run under fair scheduling.
MaxBurst == 2
MaxWake == 1
\* Number of empty results of EventQueue::Dequeue a run follows.
MaxEmpty == 2
\* Number of processes that share a SharedQueue, its capacity (size_), and
\* the number of its operations a run completes.
NumProcs == 2
QueueSize == 2
MaxOps == 4
\* Number of data chunks a writer delivers before the empty chunk.
NumChunks == 2
\* Value of std::thread::hardware_concurrency() on the machine (at least 1
\* on every platform the worker is built for).
HardwareConcurrency == 2

Threads == 1..NumThreads

(***************************************************************************)
(* Requests.                                                               *)
(***************************************************************************)
FileInfo(name, type, hash, executable, has_contents) ==
    [name |-> name, type |-> type, hash |-> hash,
     executable |-> executable, has_contents |-> has_contents]

ResourceLimits(cpu_time, wall_time, memory) ==
    [cpu_time |-> cpu_time, wall_time |-> wall_time, memory |-> memory]

NoLimits == ResourceLimits(0, 0, 0)

ExeName == <<"bin">>

ExeFile   == FileInfo(ExeName, "USER", "h1", TRUE, TRUE)
StdinFile == FileInfo(<<"in">>, "STDIN", "h2", FALSE, FALSE)
DataFile  == FileInfo(<<"data">>, "USER", "h2", FALSE, FALSE)
SlashFile == FileInfo(<<"a", "/", "b">>, "USER", "h2", FALSE, TRUE)
NulFile   == FileInfo(<<"a", "NUL">>, "USER", "h2", FALSE, TRUE)

OutFile      == FileInfo(<<"result.txt">>, "USER", "", FALSE, FALSE)
OutSlashFile == FileInfo(<<"..", "/", "x">>, "USER", "", FALSE, FALSE)
OutNulFile   == FileInfo(<<"x", "NUL">>, "USER", "", FALSE, FALSE)

InputLists ==
    { <<ExeFile>>, <<StdinFile, ExeFile>>, <<DataFile>>,
      <<ExeFile, SlashFile>>, <<NulFile, ExeFile>> }

OutputLists ==
    { <<>>, <<OutFile>>, <<OutFile, OutSlashFile>>, <<OutNulFile>> }

Request(fifo_size, exclusive, keep_sandbox, input, output, limits) ==
    [executable |-> ExeName, fifo_size |-> fifo_size, exclusive |-> exclusive,
     keep_sandbox |-> keep_sandbox, input |-> input, output |-> output,
     resource_limit |-> limits]

\* Requests of the single-call specification: every shape of request.
AllRequests ==
    { Request(f, x, k, i, o, l) :
        f \in {0, 1}, x \in BOOLEAN, k \in BOOLEAN,
        i \in InputLists, o \in OutputLists,
        l \in {NoLimits, ResourceLimits(0, 0, 2)} }

\* Requests of the concurrent specifications: well-formed, both modes.
GuardRequests ==
    { Request(0, x, FALSE, <<ExeFile>>, <<OutFile>>, NoLimits) : x \in BOOLEAN }

NoRequest == Request(0, FALSE, FALSE, <<>>, <<>>, NoLimits)

(***************************************************************************)
(* What the sandbox reports.                                               *)
(***************************************************************************)
ExecutionInfo(cpu, sys, wall, memory, status_code, signal) ==
    [cpu_time_millis |-> cpu, sys_time_millis |-> sys,
     wall_time_millis |-> wall, memory_usage_kb |-> memory,
     status_code |-> status_code, signal |-> signal,
     message |-> IF signal # 0 THEN "Killed by signal"
                 ELSE IF status_code # 0 THEN "Exited with nonzero"
                 ELSE ""]

NoInfo == ExecutionInfo(0, 0, 0, 0, 0, 0)

\* What one run of the sandbox does: the result it reports and the
\* declared outputs the program creates.
Run(result, creates) == [result |-> result, creates |-> creates]

\* Runs of the single-call specification.
AllRuns ==
    { Run(i, c) :
        i \in { ExecutionInfo(10, 0, 10, 1, 0, 0),
                ExecutionInfo(10, 0, 10, 1, 2, 0),
                ExecutionInfo(10, 0, 10, 3, 0, 0) },
        c \in SUBSET { OutFile.name } }

\* Runs of the concurrent specifications: a successful program.
GuardRuns == { Run(ExecutionInfo(10, 0, 10, 1, 0, 0), { OutFile.name }) }

VARIABLES
    max,     \* ThreadGuard::MaxThreads(): static size_t max
    cur,     \* ThreadGuard::CurThreads(): static size_t cur
    store,   \* hashes of the blobs present under store_directory_
    pc,      \* position of each thread in Execute
    req,     \* the request each thread executes
    idx,     \* index of the current loop of Execute
    err,     \* the exception Execute has thrown (NoError if none)
    guard,   \* the ThreadGuard the thread holds: "none", "shared", "excl"
    ws,      \* the thread's TempDir and the files below it
    loaded,  \* loaded_executable
    info,    \* sandbox::ExecutionInfo result
    resp,    \* proto::Response response
    hist     \* history of the call: what it has done so far

\* The variables of the executor.
execVars ==
    <<max, cur, store, pc, req, idx, err, guard, ws, loaded, info, resp, hist>>

VARIABLES
    mutated  \* hashes of the blobs whose bytes changed after their publication

\* The store directory seen file by file, for the steps of util::File.
VARIABLES
    fs,       \* the bytes at path_for(h), "absent" if there is no file
    residue,  \* hashes h with a temp file path_for(h).XXXXXX left behind
    fpc,      \* position of each thread in File::Copy
    fsrc,     \* the bytes a thread ingests (named by their hash)
    fres      \* how the thread's File::Copy ended: "none", "ok", "EEXIST"

fileVars == <<fs, residue, fpc, fsrc, fres>>

\* manager::EventQueue and the threads that consume it.
VARIABLES
    queue_,    \* std::queue<proto::Event> queue_
    stopped_,  \* bool stopped_
    wpc,       \* each consumer: "unbound", "dequeue", "write", "ended"
    event,     \* each consumer's local: the event Dequeue returned
    written,   \* the events passed to each writer's Write, in order
    enq_log,   \* history: the events in the order Enqueue took the mutex
    deq_log,   \* history: the values Dequeue returned, in order
    at_stop,   \* history: queue_ when Stop was called
    stop_at,   \* history: Len(deq_log) when Stop was called
    waiters    \* history: the consumers blocked in Dequeue at that time

eventVars ==
    <<queue_, stopped_, wpc, event, written, enq_log, deq_log, at_stop, stop_at,
      waiters>>

\* SharedQueue<T> (util/ipc.hpp) and the processes that share it.
VARIABLES
    current_size,  \* *current_size_
    data_,         \* T data_[size_], 0 where nothing was stored
    mutex_,        \* the process that holds *mutex_, 0 if it is unlocked
    spc,           \* position of each process in Enqueue or Dequeue
    sop,           \* the operation the process is in: "enq", "deq", "none"
    shm_enq,       \* history: the values of the completed Enqueue calls
    shm_deq        \* history: the values the completed Dequeue calls returned

shmVars == <<current_size, data_, mutex_, spc, sop, shm_enq, shm_deq>>

\* One path written by File::Write and File::Move of concurrent threads.
VARIABLES
    target,  \* the file at the path, Absent if there is none
    temp,    \* each writer's temp_file, Absent if there is none
    rpc,     \* position of each thread in File::Write and its receiver
    rflags,  \* the overwrite and exist_ok the receiver has captured
    done,    \* *done of each receiver
    rres,    \* how the commit ended: "none", "ok", "error"
    from,    \* the file each thread moves with File::Move
    mpc,     \* position of each thread in File::Move
    mflags,  \* the overwrite and exist_ok File::Move was called with
    mres     \* what OsAtomicMove did in File::Move, "none" before it

writeVars == <<temp, rpc, rflags, done, rres>>

moveVars == <<from, mpc, mflags, mres>>

pathVars == <<target, writeVars, moveVars>>

\* The variables of the other components of the worker (none of them is
\* read or written by LocalExecutor::Execute as modelled by its actions).
restVars == <<fileVars, eventVars, shmVars, pathVars>>

\* What the actions of one component leave unchanged.
notFileVars == <<execVars, mutated, eventVars, shmVars, pathVars>>

notEventVars == <<execVars, mutated, fileVars, shmVars, pathVars>>

notShmVars == <<execVars, mutated, fileVars, eventVars, pathVars>>

notPathVars == <<execVars, mutated, fileVars, eventVars, shmVars>>

vars == <<execVars, mutated, restVars>>


(***************************************************************************)
(* Pure helpers.                                                           *)
(***************************************************************************)
IsIllegalChar(c) == c = "/" \/ c = "NUL"

\* std::find_if(name.begin(), name.end(), IsIllegalChar) != name.end()
HasIllegalChar(name) == \E i \in 1..Len(name) : IsIllegalChar(name[i])

\* util::File::JoinPath: an empty second, or one whose first character is a
\* separator or NUL (strchr finds the terminator), is returned as it is.
JoinPath(first, second) ==
    IF Len(second) = 0 \/ second[1] \in {"/", "NUL"}
    THEN second
    ELSE first \o <<"/">> \o second

kBoxDir == <<"box">>

\* tmp.Path(): the unique directory of the request's TempDir.
TmpPath == <<"TMPDIR">>

\* The constructor's choice of the limit: 0 asks the hardware.
NumCores(num_cores) ==
    IF num_cores = 0 THEN HardwareConcurrency ELSE num_cores

\* ThreadGuardCtor with the exclusive branch testing for a full worker
\* (cur == max) instead of an idle one (cur != 0).
ThreadGuardCtor_ExclusiveIfNotFull(exclusive, c, m) ==
    IF c = m THEN [ok |-> FALSE, cur |-> c]
    ELSE [ok |-> TRUE, cur |-> IF exclusive THEN m ELSE c + 1]

\* ThreadGuardCtor counting the attempt before it tests the limit, and
\* not taking the count back when it refuses.
ThreadGuardCtor_CountsRefused(exclusive, c, m) ==
    IF exclusive
    THEN IF c # 0 THEN [ok |-> FALSE, cur |-> c]
                  ELSE [ok |-> TRUE, cur |-> m]
    ELSE IF c = m THEN [ok |-> FALSE, cur |-> c + 1]
                  ELSE [ok |-> TRUE, cur |-> c + 1]

\* ThreadGuard::ThreadGuard(exclusive) on the counter c with limit m:
\* whether it returns (ok) or throws too_many_executions, and the counter.
ThreadGuardCtor(exclusive, c, m) ==
    IF exclusive
    THEN IF c # 0 THEN [ok |-> FALSE, cur |-> c]
                  ELSE [ok |-> TRUE, cur |-> m]
    ELSE IF c = m THEN [ok |-> FALSE, cur |-> c]
                  ELSE [ok |-> TRUE, cur |-> c + 1]

\* ThreadGuard::~ThreadGuard() on the counter c.
ThreadGuardDtor(exclusive, c) == IF exclusive THEN 0 ELSE c - 1

\* Classify with a limit counted as exceeded only when the usage is
\* strictly above it.
Classify_StrictlyAbove(limits, result) ==
    IF limits.memory # 0 /\ result.memory_usage_kb > limits.memory
    THEN [status |-> "MEMORY_LIMIT", error_message |-> "Memory limit exceeded"]
    ELSE IF limits.cpu_time # 0 /\
            result.sys_time_millis + result.cpu_time_millis
                > 1000 * limits.cpu_time
    THEN [status |-> "TIME_LIMIT", error_message |-> "CPU limit exceeded"]
    ELSE IF limits.wall_time # 0 /\
            result.wall_time_millis > 1000 * limits.wall_time
    THEN [status |-> "TIME_LIMIT", error_message |-> "Wall limit exceeded"]
    ELSE IF result.signal # 0
    THEN [status |-> "SIGNAL", error_message |-> result.message]
    ELSE IF result.status_code # 0
    THEN [status |-> "NONZERO", error_message |-> result.message]
    ELSE [status |-> "SUCCESS", error_message |-> ""]

\* Termination status of Execute: the status and error message set from
\* the request's limits and the sandbox's result.
Classify(limits, result) ==
    IF limits.memory # 0 /\ result.memory_usage_kb >= limits.memory
    THEN [status |-> "MEMORY_LIMIT", error_message |-> "Memory limit exceeded"]
    ELSE IF limits.cpu_time # 0 /\
            result.sys_time_millis + result.cpu_time_millis
                >= 1000 * limits.cpu_time
    THEN [status |-> "TIME_LIMIT", error_message |-> "CPU limit exceeded"]
    ELSE IF limits.wall_time # 0 /\
            result.wall_time_millis >= 1000 * limits.wall_time
    THEN [status |-> "TIME_LIMIT", error_message |-> "Wall limit exceeded"]
    ELSE IF result.signal # 0
    THEN [status |-> "SIGNAL", error_message |-> result.message]
    ELSE IF result.status_code # 0
    THEN [status |-> "NONZERO", error_message |-> result.message]
    ELSE [status |-> "SUCCESS", error_message |-> ""]

(***************************************************************************)
(* The workspace: a TempDir and the files below it, path |-> content.      *)
(***************************************************************************)
NoFiles == <<>>

NoWorkspace == [exists |-> FALSE, keep |-> FALSE, files |-> NoFiles]

HasFile(files, path) == path \in DOMAIN files

PutFile(files, path, content) ==
    [p \in (DOMAIN files) \cup {path} |->
        IF p = path THEN content ELSE files[p]]

\* LocalExecutor::PrepareFile: stage one input below the TempDir.  The
\* source blob is the one MaybeRequestFile made present; File::Copy links it.
PrepareFile(f, files) ==
    IF f.type = "STDIN"
    THEN [ok |-> TRUE,
          files |-> PutFile(files, JoinPath(TmpPath, <<"stdin">>), f.hash)]
    ELSE IF HasIllegalChar(f.name)
    THEN [ok |-> FALSE, files |-> files]
    ELSE [ok |-> TRUE,
          files |-> PutFile(files,
                            JoinPath(TmpPath, JoinPath(kBoxDir, f.name)),
                            f.hash)]

\* The loop over request.input(): stops at the first PrepareFile that throws.
RECURSIVE StageInputs(_, _, _, _, _)
StageInputs(input, executable, i, files, loaded_executable) ==
    IF i > Len(input)
    THEN [ok |-> TRUE, files |-> files, loaded |-> loaded_executable]
    ELSE LET r == PrepareFile(input[i], files) IN
         IF ~r.ok
         THEN [ok |-> FALSE, files |-> r.files, loaded |-> loaded_executable]
         ELSE StageInputs(input, executable, i + 1, r.files,
                          loaded_executable \/ input[i].name = executable)

\* LocalExecutor::RetrieveFile: the name it reads, then hash and ingest.
\*   "invalid": std::runtime_error("Invalid file name")
\*   "enoent":  std::system_error(ENOENT) from File::Hash -> OsRead
RetrieveFile(f, files) ==
    LET stdio == f.type \in {"STDOUT", "STDERR"}
        name  == IF stdio
                 THEN (IF f.type = "STDOUT" THEN <<"stdout">> ELSE <<"stderr">>)
                 ELSE JoinPath(kBoxDir, f.name)
        path  == JoinPath(TmpPath, name)
    IN  IF ~stdio /\ HasIllegalChar(f.name)
        THEN [kind |-> "invalid", hash |-> "", out |-> f]
        ELSE IF ~HasFile(files, path)
        THEN [kind |-> "enoent", hash |-> "", out |-> f]
        ELSE [kind |-> "ok", hash |-> files[path],
              out |-> [f EXCEPT !.hash = files[path]]]

NoResponse ==
    [status |-> "NONE", error_message |-> "", status_code |-> 0, signal |-> 0,
     resource_usage |-> [cpu_time_millis |-> 0, sys_time_millis |-> 0,
                         wall_time_millis |-> 0, memory |-> 0],
     output |-> <<>>]

\* History of one call of Execute: whether sandbox Execute was invoked
\* (ran) and returned true (completed), what the program created, the
\* blobs the call wrote into the store, the tokens it acquired and
\* released, whether it created its TempDir.
NoHist ==
    [ran |-> FALSE, completed |-> FALSE, creates |-> {}, wrote |-> {},
     acquired |-> 0, released |-> 0, tmp_made |-> FALSE]

\* An exception: its C++ type and what() (the sandbox's error_msg is opaque).
Exception(type, what) == [type |-> type, what |-> what]

NoError == Exception("none", "")


\* The hashes of the blobs the threads ingest.
Blobs == {"h1", "h2"}

\* The store directory is empty and no thread is inside File::Copy.
InitFile ==
    /\ fs = [h \in Blobs |-> "absent"]
    /\ residue = {}
    /\ fpc = [t \in Threads |-> "idle"]
    /\ fsrc = [t \in Threads |-> "h1"]
    /\ fres = [t \in Threads |-> "none"]

Producers == 1..NumProducers

\* The k-th event a producer enqueues.
Event(producer, k) == [producer |-> producer, seq |-> k]

\* The empty absl::optional<proto::Event>.
NoEvent == Event(0, 0)

Consumers == 1..NumConsumers

\* A new EventQueue: empty, not stopped; no writer is bound.
InitEvents ==
    /\ queue_ = <<>>
    /\ stopped_ = FALSE
    /\ wpc = [c \in Consumers |-> "unbound"]
    /\ event = [c \in Consumers |-> NoEvent]
    /\ written = [c \in Consumers |-> <<>>]
    /\ enq_log = <<>>
    /\ deq_log = <<>>
    /\ at_stop = <<>>
    /\ stop_at = 0
    /\ waiters = {}

Procs == 1..NumProcs

\* A SharedQueue after its constructor: the anonymous mapping is zero
\* filled, the mutex and the condition variables are initialised.
InitShm ==
    /\ current_size = 0
    /\ data_ = [i \in 0..(QueueSize - 1) |-> 0]
    /\ mutex_ = 0
    /\ spc = [p \in Procs |-> "idle"]
    /\ sop = [p \in Procs |-> "none"]
    /\ shm_enq = <<>>
    /\ shm_deq = <<>>

\* The k-th chunk of the bytes thread t writes or moves.
Chunk(t, k) == <<t, k>>

\* The bytes thread t writes or moves: NumChunks chunks.
Data(t) == [k \in 1..NumChunks |-> Chunk(t, k)]

\* What is at a path: no file, or a file of the given bytes.
Absent == [exists |-> FALSE, bytes |-> <<>>]

Bytes(b) == [exists |-> TRUE, bytes |-> b]

NoFlags == [overwrite |-> FALSE, exist_ok |-> FALSE]

\* Nothing is at the path, no thread is inside File::Write or File::Move,
\* and every thread has a regular file to move.
InitPath ==
    /\ target = Absent
    /\ temp = [t \in Threads |-> Absent]
    /\ rpc = [t \in Threads |-> "idle"]
    /\ rflags = [t \in Threads |-> NoFlags]
    /\ done = [t \in Threads |-> FALSE]
    /\ rres = [t \in Threads |-> "none"]
    /\ from = [t \in Threads |-> Bytes(Data(t))]
    /\ mpc = [t \in Threads |-> "idle"]
    /\ mflags = [t \in Threads |-> NoFlags]
    /\ mres = [t \in Threads |-> "none"]

\* The initial state of the other components.
InitRest == InitFile /\ InitEvents /\ InitShm /\ InitPath

(***************************************************************************)
(* Initial state: the worker has constructed its LocalExecutor (max is     *)
(* set), the store is empty and no thread is inside Execute.               *)
(***************************************************************************)
Init ==
    /\ max \in { NumCores(n) : n \in 0..MaxCores }
    /\ cur = 0
    /\ store = {}
    /\ pc = [t \in Threads |-> "idle"]
    /\ req = [t \in Threads |-> NoRequest]
    /\ idx = [t \in Threads |-> 0]
    /\ err = [t \in Threads |-> NoError]
    /\ guard = [t \in Threads |-> "none"]
    /\ ws = [t \in Threads |-> NoWorkspace]
    /\ loaded = [t \in Threads |-> FALSE]
    /\ info = [t \in Threads |-> NoInfo]
    /\ resp = [t \in Threads |-> NoResponse]
    /\ hist = [t \in Threads |-> NoHist]
    /\ mutated = {}
    /\ InitRest

\* Where Execute goes after input i of the fetch loop.
AfterFetch(r, i) == IF i > Len(r.input) THEN "workspace" ELSE "fetch"

\* Where Execute goes after output i of the retrieve loop.
AfterRetrieve(r, i) == IF i > Len(r.output) THEN "returning" ELSE "retrieve"

(***************************************************************************)
(* LocalExecutor::LocalExecutor: every construction sets the static max.   *)
(***************************************************************************)
Construct(num_cores) ==
    /\ max' = NumCores(num_cores)
    /\ UNCHANGED <<cur, store, pc, req, idx, err, guard, ws, loaded, info,
                   resp, hist>>
    /\ UNCHANGED <<mutated, restVars>>

(***************************************************************************)
(* LocalExecutor::Execute, one action per step between two points where    *)
(* other threads can act on the shared state (cur, max, the store).        *)
(***************************************************************************)
\* Entry (lines 18-22): a thread calls Execute(r); fifo_size != 0 throws.
Call(t, r) ==
    /\ pc[t] = "idle"
    /\ req' = [req EXCEPT ![t] = r]
    /\ hist' = [hist EXCEPT ![t] = NoHist]
    /\ IF r.fifo_size # 0
       THEN /\ pc' = [pc EXCEPT ![t] = "raised"]
            /\ err' = [err EXCEPT ![t] =
                         Exception("logic_error",
                                   "FIFOs are not implemented yet")]
            /\ idx' = idx
       ELSE /\ pc' = [pc EXCEPT ![t] = AfterFetch(r, 1)]
            /\ err' = err
            /\ idx' = [idx EXCEPT ![t] = 1]
    /\ UNCHANGED <<max, cur, store, guard, ws, loaded, info, resp>>
    /\ UNCHANGED <<mutated, restVars>>

\* MaybeRequestFile, the test (lines 207-208): a blob already present is
\* not requested.
MaybeRequestFile(t) ==
    /\ pc[t] = "fetch"
    /\ IF req[t].input[idx[t]].hash \in store
       THEN /\ idx' = [idx EXCEPT ![t] = idx[t] + 1]
            /\ pc' = [pc EXCEPT ![t] = AfterFetch(req[t], idx[t] + 1)]
       ELSE /\ idx' = idx
            /\ pc' = [pc EXCEPT ![t] = "write"]
    /\ UNCHANGED <<max, cur, store, req, err, guard, ws, loaded, info, resp,
                   hist>>
    /\ UNCHANGED <<mutated, restVars>>

\* MaybeRequestFile, the write (lines 209-217): File::Write with
\* overwrite = false and exist_ok = false publishes the blob, or throws
\* std::system_error(EEXIST) when the path exists by now.
WriteBlob(t) ==
    /\ pc[t] = "write"
    /\ LET h == req[t].input[idx[t]].hash IN
       IF h \in store
       THEN /\ pc' = [pc EXCEPT ![t] = "raised"]
            /\ err' = [err EXCEPT ![t] = Exception("system_error", "EEXIST")]
            /\ UNCHANGED <<store, idx, hist>>
       ELSE /\ store' = store \cup {h}
            /\ hist' = [hist EXCEPT ![t].wrote = @ \cup {h}]
            /\ idx' = [idx EXCEPT ![t] = idx[t] + 1]
            /\ pc' = [pc EXCEPT ![t] = AfterFetch(req[t], idx[t] + 1)]
            /\ err' = err
    /\ UNCHANGED <<max, cur, req, guard, ws, loaded, info, resp>>
    /\ UNCHANGED <<mutated, restVars>>

\* Lines 27-62: the TempDir, command.txt when the sandbox is kept, the box
\* directory.  (The options handed to the sandbox are read by the sandbox
\* alone; its result is any of the runs drawn in SandboxExecute.)
MakeWorkspace(t) ==
    /\ pc[t] = "workspace"
    /\ ws' = [ws EXCEPT ![t] =
                [exists |-> TRUE,
                 keep |-> req[t].keep_sandbox,
                 files |-> IF req[t].keep_sandbox
                           THEN PutFile(NoFiles,
                                        JoinPath(TmpPath, <<"command.txt">>),
                                        "cmdline")
                           ELSE NoFiles]]
    /\ hist' = [hist EXCEPT ![t].tmp_made = TRUE]
    /\ pc' = [pc EXCEPT ![t] = "stage"]
    /\ UNCHANGED <<max, cur, store, req, idx, err, guard, loaded, info, resp>>
    /\ UNCHANGED <<mutated, restVars>>

\* Lines 64-76: PrepareFile for every input, in order.
StageFiles(t) ==
    /\ pc[t] = "stage"
    /\ LET r == StageInputs(req[t].input, req[t].executable, 1,
                            ws[t].files, FALSE) IN
       /\ ws' = [ws EXCEPT ![t].files = r.files]
       /\ loaded' = [loaded EXCEPT ![t] = r.loaded]
       /\ IF r.ok
          THEN /\ pc' = [pc EXCEPT ![t] = "prepare"]
               /\ err' = err
          ELSE /\ pc' = [pc EXCEPT ![t] = "raised"]
               /\ err' = [err EXCEPT ![t] =
                            Exception("runtime_error", "Invalid file name: ")]
    /\ UNCHANGED <<max, cur, store, req, idx, guard, info, resp, hist>>
    /\ UNCHANGED <<mutated, restVars>>

\* Lines 78-90: Sandbox::PrepareForExecution on a loaded executable; the
\* sandbox may refuse (prepared = FALSE).
PrepareForExecution(t, prepared) ==
    /\ pc[t] = "prepare"
    /\ loaded[t] \/ prepared
    /\ IF prepared
       THEN /\ pc' = [pc EXCEPT ![t] = "admit"]
            /\ err' = err
       ELSE /\ pc' = [pc EXCEPT ![t] = "raised"]
            /\ err' = [err EXCEPT ![t] =
                         Exception("runtime_error", "PrepareForExecution")]
    /\ UNCHANGED <<max, cur, store, req, idx, guard, ws, loaded, info, resp,
                   hist>>
    /\ UNCHANGED <<mutated, restVars>>

\* Line 93: ThreadGuard guard(request.exclusive()), under Mutex().
Admit(t) ==
    /\ pc[t] = "admit"
    /\ LET g == ThreadGuardCtor(req[t].exclusive, cur, max) IN
       /\ cur' = g.cur
       /\ IF g.ok
          THEN /\ guard' = [guard EXCEPT ![t] =
                              IF req[t].exclusive THEN "excl" ELSE "shared"]
               /\ hist' = [hist EXCEPT ![t].acquired = @ + 1]
               /\ pc' = [pc EXCEPT ![t] = "run"]
               /\ err' = err
          ELSE /\ pc' = [pc EXCEPT ![t] = "raised"]
               /\ err' = [err EXCEPT ![t] =
                           Exception("too_many_executions",
                                     IF req[t].exclusive
                                     THEN "Exclusive execution failed: worker busy"
                                     ELSE "Execution failed: worker busy")]
               /\ UNCHANGED <<guard, hist>>
    /\ UNCHANGED <<max, store, req, idx, ws, loaded, info, resp>>
    /\ UNCHANGED <<mutated, restVars>>

\* The declared outputs the program can create in the box.
Creatable(r) ==
    { r.output[i].name : i \in { j \in 1..Len(r.output) :
          r.output[j].type = "USER" /\ ~HasIllegalChar(r.output[j].name) } }

RECURSIVE PutAll(_, _, _)
PutAll(files, paths, content) ==
    IF paths = {} THEN files
    ELSE LET p == CHOOSE q \in paths : TRUE IN
         PutAll(PutFile(files, p, content), paths \ {p}, content)

\* Line 94, the sandbox ran: it wrote stdout and stderr, the program
\* created some of the declared outputs, and the result is filled in.
SandboxExecute(t, run) ==
    /\ pc[t] = "run"
    /\ run.creates \subseteq Creatable(req[t])
    /\ info' = [info EXCEPT ![t] = run.result]
    /\ ws' = [ws EXCEPT ![t].files =
                PutAll(PutFile(PutFile(ws[t].files,
                                       JoinPath(TmpPath, <<"stdout">>), "hout"),
                               JoinPath(TmpPath, <<"stderr">>), "herr"),
                       { JoinPath(TmpPath, JoinPath(kBoxDir, n)) :
                           n \in run.creates },
                       "hres")]
    /\ hist' = [hist EXCEPT ![t].ran = TRUE, ![t].completed = TRUE,
                             ![t].creates = run.creates]
    /\ pc' = [pc EXCEPT ![t] = "ran"]
    /\ UNCHANGED <<max, cur, store, req, idx, err, guard, loaded, resp>>
    /\ UNCHANGED <<mutated, restVars>>

\* SandboxFail with the sandbox's refusal ignored: Execute goes on to the
\* response as if the run had completed.
SandboxFail_Ignored(t) ==
    /\ pc[t] = "run"
    /\ hist' = [hist EXCEPT ![t].ran = TRUE]
    /\ pc' = [pc EXCEPT ![t] = "ran"]
    /\ UNCHANGED <<max, cur, store, req, idx, err, guard, ws, loaded, info,
                   resp>>
    /\ UNCHANGED <<mutated, restVars>>

\* Lines 94-95, the sandbox could not execute: Execute returns false and
\* std::runtime_error(error_msg) is thrown inside the guard's scope.
SandboxFail(t) ==
    /\ pc[t] = "run"
    /\ hist' = [hist EXCEPT ![t].ran = TRUE]
    /\ pc' = [pc EXCEPT ![t] = "raised"]
    /\ err' = [err EXCEPT ![t] = Exception("runtime_error", "Execute")]
    /\ UNCHANGED <<max, cur, store, req, idx, guard, ws, loaded, info, resp>>
    /\ UNCHANGED <<mutated, restVars>>

\* ReleaseGuard with the guard of a completed run kept through the
\* extraction of the outputs.
ReleaseGuard_AfterExtraction(t) ==
    /\ guard[t] # "none"
    /\ pc[t] \in {"ran", "raised"}
    /\ IF pc[t] = "ran"
       THEN /\ pc' = [pc EXCEPT ![t] = "classify"]
            /\ UNCHANGED <<cur, guard, hist>>
       ELSE /\ cur' = ThreadGuardDtor(guard[t] = "excl", cur)
            /\ guard' = [guard EXCEPT ![t] = "none"]
            /\ hist' = [hist EXCEPT ![t].released = @ + 1]
            /\ pc' = pc
    /\ UNCHANGED <<max, store, req, idx, err, ws, loaded, info, resp>>
    /\ UNCHANGED <<mutated, restVars>>

\* Lines 96-97 and 255-258: ~ThreadGuard, at the end of the scope or while
\* the exception unwinds it.
ReleaseGuard(t) ==
    /\ guard[t] # "none"
    /\ pc[t] \in {"ran", "raised"}
    /\ cur' = ThreadGuardDtor(guard[t] = "excl", cur)
    /\ guard' = [guard EXCEPT ![t] = "none"]
    /\ hist' = [hist EXCEPT ![t].released = @ + 1]
    /\ pc' = [pc EXCEPT ![t] = IF pc[t] = "ran" THEN "classify" ELSE "raised"]
    /\ UNCHANGED <<max, store, req, idx, err, ws, loaded, info, resp>>
    /\ UNCHANGED <<mutated, restVars>>

\* Lines 99-136: resource usage, status code, signal, termination status.
SetStatus(t) ==
    /\ pc[t] = "classify"
    /\ LET c == Classify(req[t].resource_limit, info[t]) IN
       resp' = [resp EXCEPT ![t] =
                  [status |-> c.status,
                   error_message |-> c.error_message,
                   status_code |-> info[t].status_code,
                   signal |-> info[t].signal,
                   resource_usage |->
                       [cpu_time_millis |-> info[t].cpu_time_millis,
                        sys_time_millis |-> info[t].sys_time_millis,
                        wall_time_millis |-> info[t].wall_time_millis,
                        memory |-> info[t].memory_usage_kb],
                   output |-> <<>>]]
    /\ pc' = [pc EXCEPT ![t] = "stdio"]
    /\ UNCHANGED <<max, cur, store, req, idx, err, guard, ws, loaded, info,
                   hist>>
    /\ UNCHANGED <<mutated, restVars>>

\* Lines 139-143: RetrieveFile of stdout, then of stderr (outside the try).
RetrieveStdio(t) ==
    /\ pc[t] = "stdio"
    /\ LET o == RetrieveFile(FileInfo(<<>>, "STDOUT", "", FALSE, FALSE),
                             ws[t].files)
           e == RetrieveFile(FileInfo(<<>>, "STDERR", "", FALSE, FALSE),
                             ws[t].files)
       IN /\ o.kind = "ok" /\ e.kind = "ok"
          /\ store' = store \cup {o.hash, e.hash}
          /\ resp' = [resp EXCEPT ![t].output = @ \o <<o.out, e.out>>]
    /\ idx' = [idx EXCEPT ![t] = 1]
    /\ pc' = [pc EXCEPT ![t] = AfterRetrieve(req[t], 1)]
    /\ UNCHANGED <<max, cur, req, err, guard, ws, loaded, info, hist>>
    /\ UNCHANGED <<mutated, restVars>>

\* Lines 144-156: RetrieveFile of one declared output, inside the try.
RetrieveOutput(t) ==
    /\ pc[t] = "retrieve"
    /\ LET r == RetrieveFile(req[t].output[idx[t]], ws[t].files) IN
       CASE r.kind = "ok" ->
              /\ store' = store \cup {r.hash}
              /\ resp' = [resp EXCEPT ![t].output = Append(@, r.out)]
              /\ idx' = [idx EXCEPT ![t] = idx[t] + 1]
              /\ pc' = [pc EXCEPT ![t] = AfterRetrieve(req[t], idx[t] + 1)]
              /\ err' = err
         [] r.kind = "enoent" ->
              /\ resp' = [resp EXCEPT ![t] =
                            IF resp[t].status = "SUCCESS"
                            THEN [@ EXCEPT !.status = "MISSING_FILES",
                                           !.error_message = "Missing output files"]
                            ELSE @]
              /\ idx' = [idx EXCEPT ![t] = idx[t] + 1]
              /\ pc' = [pc EXCEPT ![t] = AfterRetrieve(req[t], idx[t] + 1)]
              /\ UNCHANGED <<store, err>>
         [] r.kind = "invalid" ->
              /\ pc' = [pc EXCEPT ![t] = "raised"]
              /\ err' = [err EXCEPT ![t] =
                            Exception("runtime_error", "Invalid file name")]
              /\ UNCHANGED <<store, resp, idx>>
    /\ UNCHANGED <<max, cur, req, guard, ws, loaded, info, hist>>
    /\ UNCHANGED <<mutated, restVars>>

\* RetrieveFile failing with an I/O error other than not-found (File::Hash
\* or File::Copy throws std::system_error): thrown as it is for stdout
\* and stderr, rethrown by the handler of line 147 for a declared output.
RetrieveFails(t) ==
    /\ pc[t] \in {"stdio", "retrieve"}
    /\ pc' = [pc EXCEPT ![t] = "raised"]
    /\ err' = [err EXCEPT ![t] = Exception("system_error", "EIO")]
    /\ UNCHANGED <<max, cur, store, req, idx, guard, ws, loaded, info, resp,
                   hist>>
    /\ UNCHANGED <<mutated, restVars>>

\* The staged inputs the running program can write to.  File::Copy staged
\* each input as a hard link to its blob (OsAtomicCopy, link(2)), the
\* blob was created with mode 0600 by OsWrite, and Execute applies
\* MakeImmutable to none of the paths it collected in input_files; only
\* the main executable is made immutable, by PrepareForExecution, and a
\* file marked executable is made read-only by MakeExecutable.
WritableInputs(r) ==
    { i \in 1..Len(r.input) :
        /\ r.input[i].type = "USER"
        /\ ~r.input[i].executable
        /\ r.input[i].name # r.executable }

\* During line 94: the sandboxed program writes to one of its staged
\* inputs.  The box file and the blob are one inode, so the bytes at
\* path_for(hash) change.
ProgramWrites(t) ==
    /\ pc[t] = "run"
    /\ \E i \in WritableInputs(req[t]) :
         /\ ws' = [ws EXCEPT ![t].files =
                     PutFile(@, JoinPath(TmpPath,
                                         JoinPath(kBoxDir, req[t].input[i].name)),
                             "hmod")]
         /\ mutated' = mutated \cup {req[t].input[i].hash}
    /\ UNCHANGED <<max, cur, store, pc, req, idx, err, guard, loaded, info,
                   resp, hist, restVars>>

\* LeaveExecute with the TempDir removed only on the return of a Response.
LeaveExecute_KeepsOnError(t) ==
    /\ pc[t] \in {"returning", "raised"}
    /\ guard[t] = "none"
    /\ ws' = [ws EXCEPT ![t] =
                IF ws[t].exists /\ ~ws[t].keep /\ pc[t] = "returning"
                THEN NoWorkspace ELSE @]
    /\ pc' = [pc EXCEPT ![t] = "done"]
    /\ UNCHANGED <<max, cur, store, req, idx, err, guard, loaded, info, resp,
                   hist>>
    /\ UNCHANGED <<mutated, restVars>>

\* Leaving Execute by return or by exception (util/file.cpp 351-353):
\* ~TempDir removes the tree unless Keep() was called.
LeaveExecute(t) ==
    /\ pc[t] \in {"returning", "raised"}
    /\ guard[t] = "none"
    /\ ws' = [ws EXCEPT ![t] =
                IF ws[t].exists /\ ~ws[t].keep THEN NoWorkspace ELSE @]
    /\ pc' = [pc EXCEPT ![t] = "done"]
    /\ UNCHANGED <<max, cur, store, req, idx, err, guard, loaded, info, resp,
                   hist>>
    /\ UNCHANGED <<mutated, restVars>>

\* The caller has the response or the exception; the thread is free for
\* the next request.  The locals of the finished call are gone.
NextRequest(t) ==
    /\ pc[t] = "done"
    /\ pc' = [pc EXCEPT ![t] = "idle"]
    /\ req' = [req EXCEPT ![t] = NoRequest]
    /\ idx' = [idx EXCEPT ![t] = 0]
    /\ err' = [err EXCEPT ![t] = NoError]
    /\ ws' = [ws EXCEPT ![t] = NoWorkspace]
    /\ loaded' = [loaded EXCEPT ![t] = FALSE]
    /\ info' = [info EXCEPT ![t] = NoInfo]
    /\ resp' = [resp EXCEPT ![t] = NoResponse]
    /\ hist' = [hist EXCEPT ![t] = NoHist]
    /\ UNCHANGED <<max, cur, store, guard>>
    /\ UNCHANGED <<mutated, restVars>>

\* One step of thread t executing requests of R with sandbox runs of I.
Execute(t, R, I) ==
    \/ \E r \in R : Call(t, r)
    \/ MaybeRequestFile(t)
    \/ WriteBlob(t)
    \/ MakeWorkspace(t)
    \/ StageFiles(t)
    \/ \E prepared \in BOOLEAN : PrepareForExecution(t, prepared)
    \/ Admit(t)
    \/ \E run \in I : SandboxExecute(t, run)
    \/ SandboxFail(t)
    \/ ReleaseGuard(t)
    \/ SetStatus(t)
    \/ RetrieveStdio(t)
    \/ RetrieveOutput(t)
    \/ LeaveExecute(t)
    \/ NextRequest(t)

(***************************************************************************)
(* util::File on the store: the ingest of RetrieveFile (lines 197-202),    *)
(* File::Hash then File::Copy(file, path_for(hash)), one action per system *)
(* call that other threads can observe.                                    *)
(***************************************************************************)
\* The arguments File::Copy is called with by RetrieveFile: the defaults of
\* its declaration, overwrite = false and exist_ok = true.
IngestFlags == [overwrite |-> FALSE, exist_ok |-> TRUE]

\* OsAtomicCopy(src, dst, overwrite, exist_ok) when dst exists or not:
\*   "linked"  link(2) made dst, 0 is returned
\*   "exists"  EEXIST with exist_ok, 0 is returned and dst is untouched
\*   "errno"   EEXIST is returned (File::Copy falls back to HardCopy)
\*   "relink"  dst is removed, then link(2) is tried again
OsAtomicCopy(dst_exists, overwrite, exist_ok) ==
    IF ~dst_exists THEN "linked"
    ELSE IF exist_ok THEN "exists"
    ELSE IF ~overwrite THEN "errno"
    ELSE "relink"

\* File::Write(path, overwrite, exist_ok) when path exists or not:
\*   "noop"    a receiver that drops the chunks is returned
\*   "EEXIST"  std::system_error(EEXIST) is thrown
\*   "oswrite" OsWrite opens a temp file next to path
FileWrite(path_exists, overwrite, exist_ok) ==
    IF ~overwrite /\ path_exists
    THEN (IF exist_ok THEN "noop" ELSE "EEXIST")
    ELSE "oswrite"

\* OsAtomicMove with the existing destination always an error.
OsAtomicMove_ExistIsError(dst_exists, overwrite, exist_ok) ==
    IF overwrite THEN "renamed"
    ELSE IF ~dst_exists THEN "moved"
    ELSE "errno"

\* OsAtomicMove(src, dst, overwrite, exist_ok) when dst exists or not:
\*   "renamed" rename(2) put src at dst, 0 is returned
\*   "moved"   link(2) made dst and src is removed, 0 is returned
\*   "exists"  EEXIST with exist_ok: 0 is returned, src is not removed
\*   "errno"   EEXIST is returned, src is not removed
OsAtomicMove(dst_exists, overwrite, exist_ok) ==
    IF overwrite THEN "renamed"
    ELSE IF ~dst_exists THEN "moved"
    ELSE IF exist_ok THEN "exists"
    ELSE "errno"

\* RetrieveFile, line 197: the thread has hashed a file of bytes h and
\* calls File::Copy(file, path_for(h)).
Ingest(t, h) ==
    /\ fpc[t] = "idle"
    /\ fsrc' = [fsrc EXCEPT ![t] = h]
    /\ fres' = [fres EXCEPT ![t] = "none"]
    /\ fpc' = [fpc EXCEPT ![t] = "copy"]
    /\ UNCHANGED <<fs, residue>>
    /\ UNCHANGED notFileVars

\* File::Copy, line 275.  A source that is a symlink, or a link(2) that
\* fails with another errno (linkable = FALSE), goes to HardCopy.
CopyLink(t, linkable) ==
    /\ fpc[t] = "copy"
    /\ LET h == fsrc[t]
           r == IF linkable
                THEN OsAtomicCopy(fs[h] # "absent", IngestFlags.overwrite,
                                  IngestFlags.exist_ok)
                ELSE "errno"
       IN CASE r = "linked" ->
                 /\ fs' = [fs EXCEPT ![h] = h]
                 /\ fres' = [fres EXCEPT ![t] = "ok"]
                 /\ fpc' = [fpc EXCEPT ![t] = "done"]
            [] r = "exists" ->
                 /\ fres' = [fres EXCEPT ![t] = "ok"]
                 /\ fpc' = [fpc EXCEPT ![t] = "done"]
                 /\ fs' = fs
            [] r = "errno" ->
                 /\ fpc' = [fpc EXCEPT ![t] = "write"]
                 /\ UNCHANGED <<fs, fres>>
            [] r = "relink" ->
                 /\ fs' = [fs EXCEPT ![h] = "absent"]
                 /\ fpc' = [fpc EXCEPT ![t] = "copy"]
                 /\ fres' = fres
    /\ UNCHANGED <<residue, fsrc>>
    /\ UNCHANGED notFileVars

\* HardCopy, lines 263-264: Read(from), then File::Write(to) tests the size
\* of the destination and opens the temp file.
HardCopy(t) ==
    /\ fpc[t] = "write"
    /\ LET r == FileWrite(fs[fsrc[t]] # "absent", IngestFlags.overwrite,
                          IngestFlags.exist_ok)
       IN CASE r = "noop" ->
                 /\ fres' = [fres EXCEPT ![t] = "ok"]
                 /\ fpc' = [fpc EXCEPT ![t] = "done"]
            [] r = "EEXIST" ->
                 /\ fres' = [fres EXCEPT ![t] = "EEXIST"]
                 /\ fpc' = [fpc EXCEPT ![t] = "done"]
            [] r = "oswrite" ->
                 /\ fpc' = [fpc EXCEPT ![t] = "commit"]
                 /\ fres' = fres
    /\ UNCHANGED <<fs, residue, fsrc>>
    /\ UNCHANGED notFileVars

\* HardCopy, lines 265-269, and the receiver of OsWrite on the empty
\* chunk (lines 196-202): the temp file holds the bytes and OsAtomicMove
\* publishes it.
Commit(t) ==
    /\ fpc[t] = "commit"
    /\ LET h == fsrc[t]
           r == OsAtomicMove(fs[h] # "absent", IngestFlags.overwrite,
                             IngestFlags.exist_ok)
       IN /\ fs' = IF r \in {"renamed", "moved"}
                   THEN [fs EXCEPT ![h] = h] ELSE fs
          /\ residue' = IF r \in {"exists", "errno"}
                        THEN residue \cup {h} ELSE residue
          /\ fres' = [fres EXCEPT ![t] = IF r = "errno" THEN "EEXIST" ELSE "ok"]
    /\ fpc' = [fpc EXCEPT ![t] = "done"]
    /\ fsrc' = fsrc
    /\ UNCHANGED notFileVars

\* File::Copy has returned or thrown; the thread goes on.
CopyReturns(t) ==
    /\ fpc[t] = "done"
    /\ fpc' = [fpc EXCEPT ![t] = "idle"]
    /\ fres' = [fres EXCEPT ![t] = "none"]
    /\ UNCHANGED <<fs, residue, fsrc>>
    /\ UNCHANGED notFileVars

(***************************************************************************)
(* File::Write on one path (util/file.cpp, lines 176-238): the receiver of *)
(* each thread, one action per call of the receiver and one for its        *)
(* destruction.  The callers deliver the data chunks, then the empty one   *)
(* (HardCopy, lines 265-269).                                              *)
(***************************************************************************)
\* File::Write (lines 230-238) and, where it goes on, OsWrite up to the
\* return of the receiver (lines 178-193): mkostemp creates the temp file.
FileWriteCall(t, overwrite, exist_ok) ==
    /\ rpc[t] = "idle"
    /\ LET r == FileWrite(target.exists, overwrite, exist_ok)
       IN CASE r = "noop" ->
                 /\ rpc' = [rpc EXCEPT ![t] = "noop"]
                 /\ temp' = temp
            [] r = "EEXIST" ->
                 /\ rpc' = [rpc EXCEPT ![t] = "thrown"]
                 /\ temp' = temp
            [] r = "oswrite" ->
                 /\ rpc' = [rpc EXCEPT ![t] = "open"]
                 /\ temp' = [temp EXCEPT ![t] = Bytes(<<>>)]
    /\ rflags' = [rflags EXCEPT ![t] = [overwrite |-> overwrite,
                                        exist_ok |-> exist_ok]]
    /\ UNCHANGED <<target, done, rres, moveVars>>
    /\ UNCHANGED notPathVars

\* The receiver with the data chunks written to the path itself.
ReceiveChunk_IntoTarget(t, written_ok) ==
    /\ rpc[t] = "open"
    /\ Len(temp[t].bytes) < NumChunks
    /\ IF written_ok
       THEN /\ temp' = [temp EXCEPT ![t] =
                        Bytes(Append(@.bytes, Chunk(t, Len(@.bytes) + 1)))]
            /\ target' = temp'[t]
            /\ rpc' = rpc
       ELSE /\ rpc' = [rpc EXCEPT ![t] = "failed"]
            /\ UNCHANGED <<target, temp>>
    /\ UNCHANGED <<rflags, done, rres, moveVars>>
    /\ UNCHANGED notPathVars

\* The receiver of OsWrite on a data chunk (lines 204-216): write(2) puts
\* the chunk into the temp file, or fails (written_ok = FALSE): the
\* descriptor is closed, fd = -1 and std::system_error is thrown.
ReceiveChunk(t, written_ok) ==
    /\ rpc[t] = "open"
    /\ Len(temp[t].bytes) < NumChunks
    /\ IF written_ok
       THEN /\ temp' = [temp EXCEPT ![t] =
                        Bytes(Append(@.bytes, Chunk(t, Len(@.bytes) + 1)))]
            /\ rpc' = rpc
       ELSE /\ rpc' = [rpc EXCEPT ![t] = "failed"]
            /\ temp' = temp
    /\ UNCHANGED <<target, rflags, done, rres, moveVars>>
    /\ UNCHANGED notPathVars

\* The receiver of OsWrite on the empty chunk (lines 196-202): *done is
\* set, then fsync and close (synced = FALSE if one of them fails), then
\* OsAtomicMove(temp_file, path, overwrite, exist_ok); std::system_error
\* is thrown if any of them fails.
ReceiveCommit(t, synced) ==
    /\ rpc[t] = "open"
    /\ Len(temp[t].bytes) = NumChunks
    /\ done' = [done EXCEPT ![t] = TRUE]
    /\ rpc' = [rpc EXCEPT ![t] = "committed"]
    /\ IF ~synced
       THEN /\ rres' = [rres EXCEPT ![t] = "error"]
            /\ UNCHANGED <<target, temp>>
       ELSE LET r == OsAtomicMove(target.exists, rflags[t].overwrite,
                                  rflags[t].exist_ok)
            IN /\ target' = IF r \in {"renamed", "moved"}
                            THEN temp[t] ELSE target
               /\ temp' = IF r \in {"renamed", "moved"}
                          THEN [temp EXCEPT ![t] = Absent] ELSE temp
               /\ rres' = [rres EXCEPT ![t] =
                              IF r = "errno" THEN "error" ELSE "ok"]
    /\ UNCHANGED <<rflags, moveVars>>
    /\ UNCHANGED notPathVars

\* The receiver is destroyed (lines 185-192, the deferred finalize): the
\* temp file is removed unless *done is set.  The caller has stopped
\* before the empty chunk, the receiver has thrown, or the commit is over.
ReceiverDestroyed(t) ==
    /\ rpc[t] \in {"open", "failed", "committed"}
    /\ rpc' = [rpc EXCEPT ![t] = "destroyed"]
    /\ temp' = IF done[t] THEN temp ELSE [temp EXCEPT ![t] = Absent]
    /\ UNCHANGED <<target, rflags, done, rres, moveVars>>
    /\ UNCHANGED notPathVars

(***************************************************************************)
(* File::Move (util/file.cpp, lines 280-286): each thread moves its own    *)
(* source to the one path.                                                 *)
(***************************************************************************)
\* File::HardCopy(src, dst, overwrite, exist_ok) (lines 260-270) as one
\* step: the file at dst afterwards, and whether it has thrown.  Read
\* throws when src is absent; File::Write drops the chunks or throws when
\* dst exists; otherwise the temp file is filled and OsAtomicMove
\* publishes it.
FileHardCopy(src, dst, overwrite, exist_ok) ==
    IF ~src.exists THEN [to |-> dst, thrown |-> TRUE]
    ELSE LET w == FileWrite(dst.exists, overwrite, exist_ok)
             m == OsAtomicMove(dst.exists, overwrite, exist_ok)
         IN CASE w = "noop" -> [to |-> dst, thrown |-> FALSE]
              [] w = "EEXIST" -> [to |-> dst, thrown |-> TRUE]
              [] w = "oswrite" ->
                   [to |-> IF m \in {"renamed", "moved"} THEN src ELSE dst,
                    thrown |-> m = "errno"]

\* File::Copy(src, dst, overwrite, exist_ok) (lines 272-278) as one step.
\* hard: src is a symlink, or link(2) fails with an errno other than
\* EEXIST (always so when src is absent).
FileCopy(src, dst, overwrite, exist_ok, hard) ==
    LET r == IF hard \/ ~src.exists
             THEN "errno" ELSE OsAtomicCopy(dst.exists, overwrite, exist_ok)
    IN CASE r \in {"linked", "relink"} -> [to |-> src, thrown |-> FALSE]
         [] r = "exists" -> [to |-> dst, thrown |-> FALSE]
         [] r = "errno" -> FileHardCopy(src, dst, overwrite, exist_ok)

\* File::Move is called; line 282.  is_link: the source is a symlink, and
\* OsAtomicMove is not called.  linkable = FALSE: rename(2) or link(2)
\* fails with an errno other than EEXIST (EXDEV across devices).  A zero
\* from OsAtomicMove, like a symlink, leads into the body of the if; any
\* other value makes File::Move return.
MoveCall(t, overwrite, exist_ok, is_link, linkable) ==
    /\ mpc[t] = "idle"
    /\ mflags' = [mflags EXCEPT ![t] = [overwrite |-> overwrite,
                                        exist_ok |-> exist_ok]]
    /\ LET r == IF is_link THEN "symlink"
                ELSE IF ~linkable THEN "errno"
                ELSE OsAtomicMove(target.exists, overwrite, exist_ok)
       IN /\ mres' = [mres EXCEPT ![t] = r]
          /\ target' = IF r \in {"renamed", "moved"} THEN from[t] ELSE target
          /\ from' = IF r \in {"renamed", "moved"}
                     THEN [from EXCEPT ![t] = Absent] ELSE from
          /\ mpc' = [mpc EXCEPT ![t] =
                        IF r = "errno" THEN "returned" ELSE "copy"]
    /\ UNCHANGED writeVars
    /\ UNCHANGED notPathVars

\* Line 283: Copy(from, to, overwrite, exist_ok).
MoveCopy(t, linkable) ==
    /\ mpc[t] = "copy"
    /\ LET c == FileCopy(from[t], target, mflags[t].overwrite,
                         mflags[t].exist_ok,
                         mres[t] = "symlink" \/ ~linkable)
       IN /\ target' = c.to
          /\ mpc' = [mpc EXCEPT ![t] = IF c.thrown THEN "thrown" ELSE "remove"]
    /\ UNCHANGED <<from, mflags, mres, writeVars>>
    /\ UNCHANGED notPathVars

\* Line 284: Remove(from), which throws if remove(3) fails.
MoveRemove(t) ==
    /\ mpc[t] = "remove"
    /\ IF from[t].exists
       THEN /\ from' = [from EXCEPT ![t] = Absent]
            /\ mpc' = [mpc EXCEPT ![t] = "returned"]
       ELSE /\ from' = from
            /\ mpc' = [mpc EXCEPT ![t] = "thrown"]
    /\ UNCHANGED <<target, mflags, mres, writeVars>>
    /\ UNCHANGED notPathVars

\* The caller of File::Move goes on with a new file to move.
MoveNext(t) ==
    /\ mpc[t] \in {"returned", "thrown"}
    /\ from' = [from EXCEPT ![t] = Bytes(Data(t))]
    /\ mpc' = [mpc EXCEPT ![t] = "idle"]
    /\ mres' = [mres EXCEPT ![t] = "none"]
    /\ UNCHANGED <<target, mflags, writeVars>>
    /\ UNCHANGED notPathVars

(***************************************************************************)
(* manager::EventQueue (manager/event_queue.cpp).  Every member function   *)
(* runs under queue_mutex_, so each is one step.                           *)
(***************************************************************************)
\* std::queue::push with the element put at the front.
Push_Front(q, e) == <<e>> \o q

\* std::queue: push, front, pop.
Push(q, e) == Append(q, e)

Front(q) == Head(q)

\* std::queue::pop leaving the front in place.
Pop_KeepsFront(q) == q

Pop(q) == Tail(q)

\* The events a producer has enqueued so far.
Enqueued(p) == Len(SelectSeq(enq_log, LAMBDA e : e.producer = p))

\* The empty results Dequeue has returned so far.
Empties == Len(SelectSeq(deq_log, LAMBDA e : e = NoEvent))

\* Enqueue with the event dropped once the queue is stopped.
Enqueue_ClosedAfterStop(p) ==
    /\ Len(enq_log) < MaxEvents
    /\ LET e == Event(p, Enqueued(p) + 1) IN
       /\ queue_' = IF stopped_ THEN queue_ ELSE Push(queue_, e)
       /\ enq_log' = Append(enq_log, e)
    /\ UNCHANGED <<stopped_, wpc, event, written, deq_log, at_stop, stop_at,
                   waiters>>
    /\ UNCHANGED notEventVars

\* EventQueue::Enqueue (lines 5-8), called by producer p.
Enqueue(p) ==
    /\ Len(enq_log) < MaxEvents
    /\ LET e == Event(p, Enqueued(p) + 1) IN
       /\ queue_' = Push(queue_, e)
       /\ enq_log' = Append(enq_log, e)
    /\ UNCHANGED <<stopped_, wpc, event, written, deq_log, at_stop, stop_at,
                   waiters>>
    /\ UNCHANGED notEventVars

\* EventQueue::Stop (lines 23-26).
Stop ==
    /\ ~stopped_
    /\ stopped_' = TRUE
    /\ at_stop' = queue_
    /\ stop_at' = Len(deq_log)
    /\ waiters' = { c \in Consumers : wpc[c] = "dequeue" /\ queue_ = <<>> }
    /\ UNCHANGED <<queue_, wpc, event, written, enq_log, deq_log>>
    /\ UNCHANGED notEventVars

\* EventQueue::BindWriter is called (line 30): consumer c enters the loop.
BindWriter(c) ==
    /\ wpc[c] \in {"unbound", "ended"}
    /\ Empties < MaxEmpty
    /\ wpc' = [wpc EXCEPT ![c] = "dequeue"]
    /\ event' = [event EXCEPT ![c] = NoEvent]
    /\ UNCHANGED <<queue_, stopped_, written, enq_log, deq_log, at_stop,
                   stop_at,
                   waiters>>
    /\ UNCHANGED notEventVars

\* Dequeue without the Await: the empty value whenever the queue is empty.
Dequeue_NoAwait(c) ==
    /\ wpc[c] = "dequeue"
    /\ IF queue_ = <<>>
       THEN /\ event' = [event EXCEPT ![c] = NoEvent]
            /\ wpc' = [wpc EXCEPT ![c] = "ended"]
            /\ queue_' = queue_
       ELSE /\ event' = [event EXCEPT ![c] = Front(queue_)]
            /\ queue_' = Pop(queue_)
            /\ wpc' = [wpc EXCEPT ![c] = "write"]
    /\ deq_log' = Append(deq_log, event'[c])
    /\ UNCHANGED <<stopped_, written, enq_log, at_stop, stop_at, waiters>>
    /\ UNCHANGED notEventVars

\* Dequeue whose Await waits for an event even when the queue is stopped.
Dequeue_AwaitsEvent(c) ==
    /\ wpc[c] = "dequeue"
    /\ queue_ # <<>>
    /\ event' = [event EXCEPT ![c] = Front(queue_)]
    /\ queue_' = Pop(queue_)
    /\ wpc' = [wpc EXCEPT ![c] = "write"]
    /\ deq_log' = Append(deq_log, event'[c])
    /\ UNCHANGED <<stopped_, written, enq_log, at_stop, stop_at, waiters>>
    /\ UNCHANGED notEventVars

\* Dequeue returning the empty value whenever the queue is stopped.
Dequeue_EmptyWhenStopped(c) ==
    /\ wpc[c] = "dequeue"
    /\ stopped_ \/ queue_ # <<>>
    /\ IF stopped_ \/ queue_ = <<>>
       THEN /\ event' = [event EXCEPT ![c] = NoEvent]
            /\ wpc' = [wpc EXCEPT ![c] = "ended"]
            /\ queue_' = queue_
       ELSE /\ event' = [event EXCEPT ![c] = Front(queue_)]
            /\ queue_' = Pop(queue_)
            /\ wpc' = [wpc EXCEPT ![c] = "write"]
    /\ deq_log' = Append(deq_log, event'[c])
    /\ UNCHANGED <<stopped_, written, enq_log, at_stop, stop_at,
                   waiters>>
    /\ UNCHANGED notEventVars

\* EventQueue::Dequeue (lines 10-21) called by the loop of BindWriter
\* (line 31): Await(stopped_ || !queue_.empty()), then the front or the
\* empty value, which ends the loop.
Dequeue(c) ==
    /\ wpc[c] = "dequeue"
    /\ stopped_ \/ queue_ # <<>>
    /\ IF queue_ = <<>>
       THEN /\ event' = [event EXCEPT ![c] = NoEvent]
            /\ wpc' = [wpc EXCEPT ![c] = "ended"]
            /\ queue_' = queue_
       ELSE /\ event' = [event EXCEPT ![c] = Front(queue_)]
            /\ queue_' = Pop(queue_)
            /\ wpc' = [wpc EXCEPT ![c] = "write"]
    /\ deq_log' = Append(deq_log, event'[c])
    /\ UNCHANGED <<stopped_, written, enq_log, at_stop, stop_at,
                   waiters>>
    /\ UNCHANGED notEventVars

\* WriterWrite with the event dropped once the queue is stopped.
WriterWrite_DropsWhenStopped(c) ==
    /\ wpc[c] = "write"
    /\ written' = IF stopped_ THEN written
                  ELSE [written EXCEPT ![c] = Append(@, event[c])]
    /\ wpc' = [wpc EXCEPT ![c] = "dequeue"]
    /\ UNCHANGED <<queue_, stopped_, event, enq_log, deq_log, at_stop, stop_at,
                   waiters>>
    /\ UNCHANGED notEventVars

\* The body of the loop (lines 32-33): writer->Write(*event) under the
\* writer's mutex.
WriterWrite(c) ==
    /\ wpc[c] = "write"
    /\ written' = [written EXCEPT ![c] = Append(@, event[c])]
    /\ wpc' = [wpc EXCEPT ![c] = "dequeue"]
    /\ UNCHANGED <<queue_, stopped_, event, enq_log, deq_log, at_stop, stop_at,
                   waiters>>
    /\ UNCHANGED notEventVars

(***************************************************************************)
(* SharedQueue<T> (util/ipc.hpp, lines 59-79).                             *)
(*                                                                         *)
(* The header is read as follows where it is not well-formed C++:          *)
(*  - data_[current_size_] (lines 66, 76) indexes with the counter,        *)
(*    data_[*current_size_];                                               *)
(*  - pthread_cond_wait(c) (lines 63, 74) waits on c with *mutex_, the     *)
(*    only mutex of the queue: it unlocks the mutex while it waits and     *)
(*    locks it again before it returns;                                    *)
(*  - the constructor's current_size_ = 0 (line 39) sets the pointer, not  *)
(*    the counter: every *current_size_ is a dereference of a null         *)
(*    pointer, undefined behaviour whose outcomes are the fault of the     *)
(*    process and the access of the counter in the zero-filled mapping.    *)
(* Neither function unlocks the mutex before it returns.  The mutex has    *)
(* the default type, so locking it again by the thread that holds it is    *)
(* undefined behaviour: the thread deadlocks, or the lock goes through.    *)
(***************************************************************************)
\* Whether the operation has to wait: Dequeue on an empty queue (line 62),
\* Enqueue on a full one (line 73).
MustWait(op, size) ==
    IF op = "deq" THEN size = 0 ELSE size = QueueSize

\* The processes a broadcast wakes: those waiting on the condition
\* variable of the other operation.
Woken(op) ==
    [p \in Procs |->
        IF spc[p] = "wait" /\ sop[p] # op THEN "wake" ELSE spc[p]]

\* A process calls Enqueue (line 71) or Dequeue (line 60).
SharedQueueCall(p, op) ==
    /\ spc[p] = "idle"
    /\ Len(shm_enq) + Len(shm_deq) < MaxOps
    /\ spc' = [spc EXCEPT ![p] = "lock"]
    /\ sop' = [sop EXCEPT ![p] = op]
    /\ UNCHANGED <<current_size, data_, mutex_, shm_enq, shm_deq>>
    /\ UNCHANGED notShmVars

\* pthread_mutex_lock(mutex_) (lines 61, 72): blocks while another process
\* holds the mutex; goes through (relock) or deadlocks when the caller
\* holds it itself.
MutexLock(p, relock) ==
    /\ spc[p] = "lock"
    /\ mutex_ \in {0, p}
    /\ IF mutex_ = p /\ ~relock
       THEN /\ spc' = [spc EXCEPT ![p] = "deadlock"]
            /\ mutex_' = mutex_
       ELSE /\ spc' = [spc EXCEPT ![p] = "locked"]
            /\ mutex_' = p
    /\ UNCHANGED <<current_size, data_, sop, shm_enq, shm_deq>>
    /\ UNCHANGED notShmVars

\* Lines 62-67 and 73-78, with the mutex held: the test of the counter,
\* then either the wait (the mutex is unlocked) or the transfer, the
\* broadcast and the return, the mutex still locked.
SharedQueueBody(p, fault) ==
    /\ spc[p] = "locked"
    /\ IF fault
       THEN /\ spc' = [spc EXCEPT ![p] = "fault"]
            /\ UNCHANGED <<current_size, data_, mutex_, sop, shm_enq, shm_deq>>
       ELSE IF MustWait(sop[p], current_size)
       THEN /\ spc' = [spc EXCEPT ![p] = "wait"]
            /\ mutex_' = 0
            /\ UNCHANGED <<current_size, data_, sop, shm_enq, shm_deq>>
       ELSE IF sop[p] = "deq"
       THEN /\ current_size' = current_size - 1
            /\ shm_deq' = Append(shm_deq, data_[current_size - 1])
            /\ spc' = [Woken("deq") EXCEPT ![p] = "idle"]
            /\ sop' = [sop EXCEPT ![p] = "none"]
            /\ UNCHANGED <<data_, mutex_, shm_enq>>
       ELSE /\ data_' = [data_ EXCEPT ![current_size] = Len(shm_enq) + 1]
            /\ current_size' = current_size + 1
            /\ shm_enq' = Append(shm_enq, Len(shm_enq) + 1)
            /\ spc' = [Woken("enq") EXCEPT ![p] = "idle"]
            /\ sop' = [sop EXCEPT ![p] = "none"]
            /\ UNCHANGED <<mutex_, shm_deq>>
    /\ UNCHANGED notShmVars

\* pthread_cond_wait returning after a broadcast: it locks the mutex again
\* and the loop tests the counter again.
CondWake(p) ==
    /\ spc[p] = "wake"
    /\ mutex_ = 0
    /\ mutex_' = p
    /\ spc' = [spc EXCEPT ![p] = "locked"]
    /\ UNCHANGED <<current_size, data_, sop, shm_enq, shm_deq>>
    /\ UNCHANGED notShmVars

(***************************************************************************)
(* Specifications.                                                         *)
(***************************************************************************)
\* SpecWrite: threads write the same path through File::Write.
NextWrite ==
    \E t \in Threads :
        \/ \E overwrite \in BOOLEAN, exist_ok \in BOOLEAN :
               FileWriteCall(t, overwrite, exist_ok)
        \/ \E written_ok \in BOOLEAN : ReceiveChunk(t, written_ok)
        \/ \E synced \in BOOLEAN : ReceiveCommit(t, synced)
        \/ ReceiverDestroyed(t)

SpecWrite == Init /\ [][NextWrite]_vars

\* SpecMove: threads move their files to the same path with File::Move.
NextMove ==
    \E t \in Threads :
        \/ \E overwrite \in BOOLEAN, exist_ok \in BOOLEAN,
              is_link \in BOOLEAN, linkable \in BOOLEAN :
               MoveCall(t, overwrite, exist_ok, is_link, linkable)
        \/ \E linkable \in BOOLEAN : MoveCopy(t, linkable)
        \/ MoveRemove(t)
        \/ MoveNext(t)

SpecMove == Init /\ [][NextMove]_vars

\* SpecShm: processes enqueue into and dequeue from one SharedQueue.
NextShm ==
    \E p \in Procs :
        \/ \E op \in {"enq", "deq"} : SharedQueueCall(p, op)
        \/ \E relock \in BOOLEAN : MutexLock(p, relock)
        \/ \E fault \in BOOLEAN : SharedQueueBody(p, fault)
        \/ CondWake(p)

SpecShm == Init /\ [][NextShm]_vars

\* The producer of a run with several consumers enqueues MaxBurst events.
Produce ==
    /\ Len(enq_log) < MaxBurst
    /\ Enqueue(1)

\* Each consumer of such a run calls BindWriter once.
Bind(c) ==
    /\ wpc[c] = "unbound"
    /\ BindWriter(c)

\* SpecConsumers: one producer enqueues, several consumers are bound to
\* the same queue, Stop is called.
NextConsumers ==
    \/ Produce
    \/ Stop
    \/ \E c \in Consumers : Bind(c)
    \/ \E c \in Consumers : Dequeue(c)
    \/ \E c \in Consumers : WriterWrite(c)

SpecConsumers == Init /\ [][NextConsumers]_vars

\* The producer of a run under fair scheduling enqueues MaxWake events.
Wake ==
    /\ Len(enq_log) < MaxWake
    /\ Enqueue(1)

\* SpecFair: the same under fair scheduling.  Every consumer is a thread
\* of its own that the scheduler lets run: a Dequeue whose condition holds
\* takes the mutex and returns, and writer->Write returns.  Nothing
\* obliges the producer to enqueue or anyone to call Stop.
NextFair ==
    \/ Wake
    \/ Stop
    \/ \E c \in Consumers : Bind(c)
    \/ \E c \in Consumers : Dequeue(c)
    \/ \E c \in Consumers : WriterWrite(c)

SpecFair ==
    /\ Init
    /\ [][NextFair]_vars
    /\ \A c \in Consumers : WF_vars(Dequeue(c)) /\ WF_vars(WriterWrite(c))

\* SpecEvents: producers enqueue, one consumer is bound, Stop is called.
NextEvents ==
    \/ \E p \in Producers : Enqueue(p)
    \/ Stop
    \/ BindWriter(1)
    \/ Dequeue(1)
    \/ WriterWrite(1)

SpecEvents == Init /\ [][NextEvents]_vars

\* SpecIngest: threads ingest files into the store concurrently.
NextIngest ==
    \E t \in Threads :
          \/ \E h \in Blobs : Ingest(t, h)
          \/ \E linkable \in BOOLEAN : CopyLink(t, linkable)
          \/ HardCopy(t)
          \/ Commit(t)
          \/ CopyReturns(t)

SpecIngest == Init /\ [][NextIngest]_vars

\* Spec: the worker.  Threads execute requests concurrently while
\* LocalExecutor objects are constructed.
Next ==
    \/ \E t \in Threads : Execute(t, GuardRequests, GuardRuns)
    \/ \E n \in 0..MaxCores : Construct(n)

Spec == Init /\ [][Next]_vars

\* SpecGuard: the interleavings of ThreadGuard acquisitions and releases
\* of concurrent Execute calls, with the one LocalExecutor of startup.
NextGuard == \E t \in Threads : Execute(t, GuardRequests, GuardRuns)

SpecGuard == Init /\ [][NextGuard]_vars

\* SpecExec: one thread executes requests of every shape; the program may
\* write to its inputs and the extraction of the outputs may fail.
NextExec ==
    \/ Execute(1, AllRequests, AllRuns)
    \/ ProgramWrites(1)
    \/ RetrieveFails(1)

SpecExec == Init /\ [][NextExec]_vars


\* SpecClassify: the termination status as a function of the requested
\* limits and the sandbox's result.  Thread 1 has just released its guard
\* after a run of a request with the limits drawn here, and the sandbox
\* has reported the result drawn here.
ClassifyLimits ==
    { ResourceLimits(c, w, m) : c \in {0, 1}, w \in {0, 1}, m \in {0, 2} }

ClassifyInfos ==
    { ExecutionInfo(c, s, w, m, x, g) :
        c \in {0, 600, 1000}, s \in {0, 400}, w \in {999, 1000},
        m \in {1, 2, 3}, x \in {0, 1}, g \in {0, 9} }

InitClassify ==
    /\ max \in { NumCores(n) : n \in 0..MaxCores }
    /\ cur = 0
    /\ store = {ExeFile.hash}
    /\ \E l \in ClassifyLimits, i \in ClassifyInfos :
         /\ req = [t \in Threads |->
                     IF t = 1
                     THEN Request(0, FALSE, FALSE, <<ExeFile>>, <<>>, l)
                     ELSE NoRequest]
         /\ info = [t \in Threads |-> IF t = 1 THEN i ELSE NoInfo]
    /\ pc = [t \in Threads |-> IF t = 1 THEN "classify" ELSE "idle"]
    /\ idx = [t \in Threads |-> IF t = 1 THEN 2 ELSE 0]
    /\ err = [t \in Threads |-> NoError]
    /\ guard = [t \in Threads |-> "none"]
    /\ ws = [t \in Threads |->
               IF t = 1
               THEN [exists |-> TRUE, keep |-> FALSE,
                     files |->
                       PutFile(PutFile(PutFile(NoFiles,
                           JoinPath(TmpPath, JoinPath(kBoxDir, ExeName)),
                           ExeFile.hash),
                           JoinPath(TmpPath, <<"stdout">>), "hout"),
                           JoinPath(TmpPath, <<"stderr">>), "herr")]
               ELSE NoWorkspace]
    /\ loaded = [t \in Threads |-> t = 1]
    /\ resp = [t \in Threads |-> NoResponse]
    /\ hist = [t \in Threads |->
                 IF t = 1
                 THEN [NoHist EXCEPT !.ran = TRUE, !.completed = TRUE,
                                     !.wrote = {ExeFile.hash},
                                     !.acquired = 1, !.released = 1,
                                     !.tmp_made = TRUE]
                 ELSE NoHist]
    /\ mutated = {}
    /\ InitRest

NextClassify == SetStatus(1)

SpecClassify == InitClassify /\ [][NextClassify]_vars

(***************************************************************************)
(* Claims.                                                                 *)
(***************************************************************************)
Holders(kind) == { t \in Threads : guard[t] = kind }

\* The unsigned order of two size_t values given by their representatives:
\* a negative representative stands for a value of at least 2^63.
SizeLess(a, b) ==
    \/ a >= 0 /\ b >= 0 /\ a < b
    \/ a >= 0 /\ b < 0
    \/ a < 0 /\ b < 0 /\ a < b

C2_ExclusiveLockout ==
    [][\A t \in Threads :
          (guard[t] = "none" /\ guard'[t] # "none") =>
              /\ \A u \in Threads : guard[u] # "excl"
              /\ guard'[t] = "excl" => \A u \in Threads : guard[u] = "none"]_vars

\* C3: a non-exclusive acquisition succeeds if and only if cur < max when
\* it is attempted, and then adds exactly 1 to cur; with cur >= max it
\* fails with worker-busy.
C3_SharedAdmission ==
    [][\A t \in Threads :
          (pc[t] = "admit" /\ pc'[t] # "admit" /\ ~req[t].exclusive) =>
              IF SizeLess(cur, max)
              THEN guard'[t] = "shared" /\ cur' = cur + 1
              ELSE /\ guard'[t] = "none" /\ cur' = cur
                   /\ err'[t].type = "too_many_executions"]_vars

\* C4: a refused admission is immediate and without effect on the guard:
\* the attempt never waits (the constructor can always take its step), the
\* refusal leaves cur as it was and leaves the thread without a token, and
\* the refused call never releases.
C4_RefusalHasNoEffect ==
    /\ [](\A t \in Threads : pc[t] = "admit" => ENABLED Admit(t))
    /\ [][\A t \in Threads :
             (pc[t] = "admit" /\ err'[t].type = "too_many_executions") =>
                 /\ cur' = cur
                 /\ guard'[t] = "none"
                 /\ pc'[t] = "raised"]_vars
    /\ [](\A t \in Threads :
             err[t].type = "too_many_executions" =>
                 /\ guard[t] = "none"
                 /\ hist[t].acquired = 0
                 /\ hist[t].released = 0)

\* A call was refused while another thread holds a token, and has left
\* Execute with the exception.
C4_Witness ==
    \E t, u \in Threads :
        /\ pc[t] = "done" /\ err[t].type = "too_many_executions"
        /\ guard[u] # "none"

\* C5: every acquired token is released exactly once when the sandbox
\* invocation ends, by return or by exception; so once every call of
\* Execute has returned or thrown, cur = 0.
C5_TokenReleased ==
    /\ \A t \in Threads :
          pc[t] = "done" =>
              guard[t] = "none" /\ hist[t].released = hist[t].acquired
    /\ (\A t \in Threads : pc[t] \in {"idle", "done"}) => cur = 0

\* C6: max is set once, at startup, and never changes afterwards: no
\* operation of the worker changes max while a token is held.
C6_MaxSetOnce ==
    [][(\E t \in Threads : guard[t] # "none") => max' = max]_vars

IllegalUserFile(files) ==
    \E i \in 1..Len(files) :
        files[i].type = "USER" /\ HasIllegalChar(files[i].name)

\* C7: for a request with an illegal USER file name among its inputs or
\* its outputs, Execute ends with an error and sandbox Execute is never
\* invoked.
C7_IllegalNameNeverRuns ==
    \A t \in Threads :
        (IllegalUserFile(req[t].input) \/ IllegalUserFile(req[t].output)) =>
            /\ ~hist[t].ran
            /\ pc[t] = "done" => err[t].type # "none"

\* C8: when Execute rejects a request as invalid (fifo_size != 0, or an
\* illegal input file name), then at the moment the error is raised this
\* call has written no blob into the store, has created no temp workspace
\* and has staged no input.
C8_RejectBeforeFilesystem ==
    \A t \in Threads :
        (/\ pc[t] = "raised"
         /\ \/ err[t].type = "logic_error"
            \/ err[t] = Exception("runtime_error", "Invalid file name: ")) =>
            /\ hist[t].wrote = {}
            /\ ~hist[t].tmp_made
            /\ ~ws[t].exists
            /\ ws[t].files = NoFiles

\* C9: the status set by the classification is the first match of: memory
\* limit # 0 and usage >= limit -> MEMORY_LIMIT; cpu limit # 0 and cpu + sys
\* >= limit -> TIME_LIMIT (CPU); wall limit # 0 and wall >= limit ->
\* TIME_LIMIT (wall); signal # 0 -> SIGNAL; status_code # 0 -> NONZERO;
\* otherwise SUCCESS.  The limits are the requested ones, a usage equal to
\* the limit counts as exceeded, a limit of 0 never yields its status.
C9_Classification ==
    \A t \in Threads :
        resp[t].status # "NONE" /\ pc[t] = "stdio" =>
            LET l == req[t].resource_limit
                i == info[t]
                mem  == l.memory # 0 /\ i.memory_usage_kb >= l.memory
                cpu  == l.cpu_time # 0 /\
                        i.cpu_time_millis + i.sys_time_millis
                            >= 1000 * l.cpu_time
                wall == l.wall_time # 0 /\
                        i.wall_time_millis >= 1000 * l.wall_time
                st   == resp[t].status
                msg  == resp[t].error_message
            IN  /\ mem => st = "MEMORY_LIMIT" /\ msg = "Memory limit exceeded"
                /\ ~mem /\ cpu => st = "TIME_LIMIT" /\ msg = "CPU limit exceeded"
                /\ ~mem /\ ~cpu /\ wall =>
                       st = "TIME_LIMIT" /\ msg = "Wall limit exceeded"
                /\ ~mem /\ ~cpu /\ ~wall /\ i.signal # 0 => st = "SIGNAL"
                /\ ~mem /\ ~cpu /\ ~wall /\ i.signal = 0 /\ i.status_code # 0 =>
                       st = "NONZERO"
                /\ ~mem /\ ~cpu /\ ~wall /\ i.signal = 0 /\ i.status_code = 0 =>
                       st = "SUCCESS"
                /\ l.memory = 0 => st # "MEMORY_LIMIT"
                /\ l.cpu_time = 0 => msg # "CPU limit exceeded"
                /\ l.wall_time = 0 => msg # "Wall limit exceeded"

\* A run whose memory usage equals the memory limit and whose cpu + sys
\* time equals the cpu limit has been classified MEMORY_LIMIT.
C9_Witness ==
    /\ pc[1] = "stdio"
    /\ req[1].resource_limit.memory = info[1].memory_usage_kb
    /\ 1000 * req[1].resource_limit.cpu_time =
           info[1].cpu_time_millis + info[1].sys_time_millis
    /\ req[1].resource_limit.cpu_time # 0
    /\ resp[1].status = "MEMORY_LIMIT"

\* The declared outputs that do not exist in the box after the run.
MissingOutputs(t) ==
    { i \in 1..Len(req[t].output) :
        /\ req[t].output[i].type = "USER"
        /\ ~HasIllegalChar(req[t].output[i].name)
        /\ req[t].output[i].name \notin hist[t].creates }

\* C10: when the sandbox run completed and a declared output file does not
\* exist, Execute returns a Response: its status is MISSING_FILES with
\* "Missing output files" if the classified status was SUCCESS and the
\* classified status and message otherwise; the missing file is not in the
\* response's output list.
C10_MissingOutput ==
    \A t \in Threads :
        (pc[t] = "done" /\ hist[t].completed /\ MissingOutputs(t) # {}) =>
            LET c == Classify(req[t].resource_limit, info[t]) IN
            /\ err[t].type = "none"
            /\ resp[t].status =
                 IF c.status = "SUCCESS" THEN "MISSING_FILES" ELSE c.status
            /\ resp[t].error_message =
                 IF c.status = "SUCCESS" THEN "Missing output files"
                 ELSE c.error_message
            /\ \A i \in MissingOutputs(t) :
                 \A j \in 1..Len(resp[t].output) :
                     resp[t].output[j].name # req[t].output[i].name

C12_OutcomeKind ==
    \A t \in Threads :
        pc[t] = "done" => (err[t].type = "none" <=> hist[t].completed)

\* The errors RetrieveFile raises during output extraction.
ExtractionErrors ==
    { Exception("system_error", "EIO"),
      Exception("runtime_error", "Invalid file name") }

\* C12 (amended): whenever Execute returns a Response, sandbox Execute
\* completed successfully for the request; whenever Execute raises an
\* error, either sandbox Execute did not complete successfully, or it
\* completed and the error arose during output extraction (an I/O error
\* other than not-found, or an illegal output file name).
C12_OutcomeKindAmended ==
    \A t \in Threads :
        pc[t] = "done" =>
            /\ err[t].type = "none" => hist[t].completed
            /\ err[t].type # "none" =>
                  \/ ~hist[t].completed /\ err[t] \notin ExtractionErrors
                  \/ hist[t].completed /\ err[t] \in ExtractionErrors

\* Execute has raised an I/O error of the output extraction after a
\* completed run of the sandbox.
C12_Witness ==
    \E t \in Threads :
        /\ pc[t] = "done" /\ hist[t].completed
        /\ err[t].type = "system_error" /\ err[t].what = "EIO"
        /\ resp[t].status # "NONE"

\* C14: when two calls of Execute race to publish the same hash (both find
\* the input absent and both materialize it), the second treats the
\* existing target as success: no call raises the already-exists error.
C14_WriterRaceIdempotent ==
    \A t \in Threads : err[t] # Exception("system_error", "EEXIST")

\* C15: once a blob is present at path_for(H), no sequence of Execute
\* requests changes its bytes.
C15_BlobsImmutable == mutated = {}

\* C13: when threads concurrently ingest files with identical bytes, every
\* one of them completes successfully, and the file at path_for(H) holds
\* those bytes (a path of the store never holds other bytes than its own).
C13_ConcurrentIngest ==
    /\ \A t \in Threads :
          fpc[t] = "done" => fres[t] = "ok" /\ fs[fsrc[t]] = fsrc[t]
    /\ \A h \in Blobs : fs[h] \in {"absent", h}

\* Two threads have ingested the same bytes at the same time: both wrote a
\* temp file, one published it, the other found the destination present
\* (its temp file is left), and both have succeeded.
C13_Witness ==
    \E t, u \in Threads :
        /\ t # u /\ fsrc[t] = fsrc[u]
        /\ fpc[t] = "done" /\ fpc[u] = "done"
        /\ fres[t] = "ok" /\ fres[u] = "ok"
        /\ fsrc[t] \in residue
        /\ fs[fsrc[t]] = fsrc[t]

\* The events among the values Dequeue returned.
Events(log) == SelectSeq(log, LAMBDA e : e # NoEvent)

Range(q) == { q[i] : i \in 1..Len(q) }

\* What Dequeue returned after Stop was called.
AfterStop == SubSeq(deq_log, stop_at + 1, Len(deq_log))

\* C16: the single consumer receives the events in exactly the order in
\* which the Enqueue calls took the mutex, none lost, duplicated or
\* reordered: the events dequeued so far followed by the queue are the
\* enqueue order, and the bound writer has written the dequeued events in
\* that order (all of them but the one it holds).
C16_EventOrder ==
    /\ Events(deq_log) \o queue_ = enq_log
    /\ written[1] \o (IF wpc[1] = "write" THEN <<event[1]>> ELSE <<>>)
          = Events(deq_log)

\* The writer has written three events of interleaved producers.
C16_Witness ==
    /\ Len(written[1]) >= 3
    /\ written[1][1].producer # written[1][2].producer
    /\ written[1][2].producer # written[1][3].producer

\* C17: after Stop, the Dequeue calls first return, in FIFO order, every
\* event that was queued when Stop was called, and return the empty value
\* only when the queue is empty.
C17_DrainAfterStop ==
    /\ [](stopped_ =>
            \A i \in 1..Len(AfterStop) :
                i <= Len(at_stop) => AfterStop[i] = at_stop[i])
    /\ [][(deq_log' # deq_log /\ deq_log'[Len(deq_log')] = NoEvent) =>
             (stopped_ /\ queue_ = <<>>)]_vars

\* Stop was called with two events queued; Dequeue has returned both, in
\* order, and then the empty value.
C17_Witness ==
    /\ stopped_ /\ Len(at_stop) >= 2
    /\ AfterStop = at_stop \o <<NoEvent>>

\* C18 (as stated): the events still queued when Stop is called are
\* discarded: no Dequeue after Stop returns one of them and the bound
\* writer forwards none of them.
C18_DiscardedOnStop ==
    stopped_ =>
        /\ \A i \in 1..Len(AfterStop) : AfterStop[i] \notin Range(at_stop)
        /\ wpc[1] = "ended" => Range(written[1]) \cap Range(at_stop) = {}

\* C18 (amended): the events still queued when Stop is called are not
\* discarded: when the loop of the single bound writer has ended, it has
\* forwarded every event it dequeued, and every event that was queued when
\* Stop was called is among them.
C18_ForwardedOnStop ==
    (stopped_ /\ wpc[1] = "ended") =>
        /\ written[1] = Events(deq_log)
        /\ Range(at_stop) \subseteq Range(written[1])

\* Stop was called with events queued, and the writer's loop has ended
\* after forwarding them.
C18_Witness ==
    /\ stopped_ /\ wpc[1] = "ended" /\ at_stop # <<>>
    /\ Range(at_stop) \subseteq Range(written[1])

\* C19: SharedQueue is a FIFO: the k-th completed Dequeue returns the value
\* of the k-th completed Enqueue.
C19_SharedQueueFifo ==
    \A k \in 1..Len(shm_deq) : shm_deq[k] = shm_enq[k]

\* C20: no operation leaves the queue permanently locked: a process that
\* has completed its operations does not hold the mutex, so that a further
\* Enqueue or Dequeue of any process can enter.
C20_NotLeftLocked ==
    \A p \in Procs : spc[p] = "idle" => mutex_ # p

\* C21: File::Move of a regular file to an absent destination, where
\* link(2) and the removal of the source both succeed, returns without
\* error with the source gone, and attempts no copy and no removal after
\* the atomic move.
C21_MoveSucceeds ==
    \A t \in Threads :
        mres[t] = "moved" => mpc[t] = "returned" /\ ~from[t].exists

\* C24: File::Move never returns normally while the destination lacks the
\* source's bytes and the source is still in place: a failed atomic step
\* is completed by the copy and the removal, or an error is raised.
C24_MoveNeverMasks ==
    \A t \in Threads :
        mpc[t] = "returned" => ~from[t].exists \/ target = from[t]

\* C23: the path written through File::Write never holds partial content:
\* the data chunks go to the writer's temp file only, the path changes
\* only in the step that delivers the empty chunk, to the complete bytes
\* of that writer, and a writer that stops or fails before the empty
\* chunk never creates the path.
C23_PublishedAtCommit ==
    /\ [](target.exists =>
            \E t \in Threads : done[t] /\ target = Bytes(Data(t)))
    /\ [][target' # target =>
            \E t \in Threads :
                /\ rpc[t] = "open" /\ rpc'[t] = "committed"
                /\ temp[t] = Bytes(Data(t))
                /\ target' = temp[t]]_vars

\* A writer has published the path with its empty chunk while another
\* one, with a part of its data in its temp file, has failed and left no
\* trace at the path.
C23_Witness ==
    \E t, u \in Threads :
        /\ done[t] /\ rres[t] = "ok" /\ target = Bytes(Data(t))
        /\ rpc[u] = "failed" /\ temp[u] = Bytes(<<Chunk(u, 1)>>)

\* C27: once the empty chunk of a receiver of File::Write has been
\* delivered (the path published, found present, or an error raised), the
\* writer's temp file does not exist any more.
C27_NoStagingResidue ==
    \A t \in Threads : done[t] => ~temp[t].exists


\* Every input of the thread's request is present in the store.
Materialized(t) ==
    \A i \in 1..Len(req[t].input) : req[t].input[i].hash \in store

\* Every input of the thread's request is staged below its TempDir.
Staged(t) ==
    \A i \in 1..Len(req[t].input) :
        LET r == PrepareFile(req[t].input[i], NoFiles)
        IN r.ok /\ \A path \in DOMAIN r.files :
                      HasFile(ws[t].files, path)
                      /\ ws[t].files[path] \in {r.files[path], "hmod"}

\* C22: within one call of Execute the inputs are materialized in the
\* store before they are staged, they are staged (and the executable
\* prepared) before the admission token is acquired, the sandbox runs
\* with the token held, the token is released after the run, and stdout,
\* stderr and the outputs are extracted after the release; the token is
\* never held during staging or extraction.
C22_StepOrder ==
    /\ [](\A t \in Threads :
            /\ pc[t] \in {"stage", "prepare", "admit"} =>
                  Materialized(t) /\ guard[t] = "none"
                  /\ hist[t].acquired = 0 /\ ~hist[t].ran
            /\ pc[t] \in {"prepare", "admit"} => Staged(t)
            /\ guard[t] # "none" =>
                  /\ Materialized(t) /\ Staged(t)
                  /\ hist[t].acquired = 1 /\ hist[t].released = 0
                  /\ resp[t] = NoResponse
            /\ resp[t].output # <<>> =>
                  /\ hist[t].ran /\ guard[t] = "none"
                  /\ hist[t].acquired = 1 /\ hist[t].released = 1)
    /\ [][\A t \in Threads :
            /\ pc'[t] = "admit" /\ pc[t] # "admit" => pc[t] = "prepare"
            /\ hist'[t].acquired > hist[t].acquired => pc[t] = "admit"
            /\ ~hist[t].ran /\ hist'[t].ran => guard[t] # "none"
            /\ guard[t] # "none" /\ guard'[t] = "none" => hist[t].ran
            /\ Len(resp'[t].output) > Len(resp[t].output) =>
                  guard[t] = "none" /\ hist[t].released = 1]_vars

\* A call whose executable is one of two inputs has gone through every
\* step: it ran with its token, released it, and has extracted stdout,
\* stderr and a declared output.
C22_Witness ==
    \E t \in Threads :
        /\ pc[t] = "returning" /\ loaded[t]
        /\ Len(req[t].input) >= 2 /\ Len(resp[t].output) >= 3
        /\ hist[t].acquired = 1 /\ hist[t].released = 1


\* The value the last Dequeue returned.
Returned(log) == log[Len(log)]

\* C25: Dequeue returns the empty value only when Stop has been called and
\* the queue is empty at that moment; before Stop it never returns empty;
\* whenever the queue is not empty it returns (and removes) the front
\* event, stopped or not.
C25_DequeueResult ==
    /\ [](~stopped_ => Empties = 0)
    /\ [][deq_log' # deq_log =>
            IF queue_ = <<>>
            THEN stopped_ /\ Returned(deq_log') = NoEvent /\ queue_' = queue_
            ELSE Returned(deq_log') = Front(queue_) /\ queue_' = Pop(queue_)]_vars

\* After Stop, Dequeue has returned an event that was still queued, and
\* then the empty value.
C25_Witness ==
    /\ stopped_ /\ at_stop # <<>>
    /\ \E i \in (stop_at + 1)..Len(deq_log) :
          /\ deq_log[i] # NoEvent
          /\ \E j \in (i + 1)..Len(deq_log) : deq_log[j] = NoEvent

\* The events Dequeue has returned so far.
Dequeued == Len(Events(deq_log))

\* Consumer c is inside Dequeue.
InDequeue(c) == wpc[c] = "dequeue"

\* C26 (as stated): under fair scheduling every Dequeue blocked on the
\* empty queue returns once an Enqueue or Stop has occurred.
C26_EveryBlockedReturns ==
    \A c \in Consumers :
        (InDequeue(c) /\ (stopped_ \/ queue_ # <<>>)) ~> ~InDequeue(c)

\* C26 (amended): under fair scheduling, once Stop has been called every
\* consumer inside Dequeue returns, and every BindWriter loop ends; once an
\* event is in the queue while consumers are inside Dequeue, one of them
\* returns with an event.
C26_Progress ==
    /\ \A c \in Consumers : (InDequeue(c) /\ stopped_) ~> ~InDequeue(c)
    /\ \A c \in Consumers :
          (stopped_ /\ wpc[c] # "unbound") ~> (wpc[c] = "ended")
    /\ \A n \in 0..MaxWake :
          (Dequeued = n /\ queue_ # <<>> /\ \E c \in Consumers : InDequeue(c))
              ~> (Dequeued > n)

\* Stop was called while two consumers were blocked in Dequeue on the
\* empty queue, and the loops of both have ended.
C26_Witness ==
    /\ stopped_
    /\ \E c, d \in waiters : c # d /\ wpc[c] = "ended" /\ wpc[d] = "ended"

\* How many times e occurs in q.
Count(q, e) == Len(SelectSeq(q, LAMBDA x : x = e))

\* The events consumer c has got from Dequeue.
Got(c) ==
    Range(written[c]) \cup (IF wpc[c] = "write" THEN {event[c]} ELSE {})

\* C28: with several consumers, every enqueued event is returned by at
\* most one Dequeue call, and the events returned together with those
\* still queued are, as a multiset, the events enqueued.
C28_EachEventOnce ==
    /\ \A e \in Range(enq_log) \cup Range(Events(deq_log)) \cup Range(queue_) :
          /\ Count(Events(deq_log), e) <= 1
          /\ Count(Events(deq_log), e) + Count(queue_, e) = Count(enq_log, e)
    /\ \A c, d \in Consumers : c # d => Got(c) \cap Got(d) = {}
    /\ \A c \in Consumers :
          \A i, j \in 1..Len(written[c]) :
              i # j => written[c][i] # written[c][j]

\* Two consumers bound to the queue have each got one of the events.
C28_Witness ==
    \E c, d \in Consumers :
        c # d /\ written[c] # <<>> /\ written[d] # <<>> /\ queue_ = <<>>

\* C29: Stop does not close the queue to producers: stopped_ never
\* reverts, an Enqueue after Stop puts its event at the back of the queue,
\* and no event enqueued, before or after Stop, is dropped: it is in the
\* queue until a Dequeue returns it.
C29_OpenAfterStop ==
    /\ [](Range(enq_log) = Range(queue_) \cup Range(Events(deq_log)))
    /\ [][/\ stopped_ => stopped_'
          /\ (stopped_ /\ enq_log' # enq_log) =>
                queue_' = Push(queue_, Returned(enq_log'))]_vars

\* After Stop a Dequeue has returned the empty value, and a later Dequeue
\* has returned an event enqueued after Stop.
C29_Witness ==
    /\ stopped_
    /\ \E i \in (stop_at + 1)..Len(deq_log) :
          /\ deq_log[i] = NoEvent
          /\ \E j \in (i + 1)..Len(deq_log) :
                deq_log[j] # NoEvent /\ deq_log[j] \notin Range(at_stop)


====
